---------------------------- MODULE Spec2Model ----------------------------
(***************************************************************************)
(* The store of react-fluxter (core/store.ts): one mutable container with  *)
(* a state, a name, a reducer and a listener list.  Listeners are          *)
(* callbacks, so a notification pass (listeners.forEach) is modelled as a  *)
(* frame on a call stack: a listener that is running may itself call the   *)
(* store (subscribe, unsubscribe, dispatch, setStoreName), return or       *)
(* throw.                                                                  *)
(***************************************************************************)
EXTENDS Integers, Sequences, FiniteSets, TLC

\* ---------------------------------------------------------------- bounds
MaxOps == 5   \* store calls (by top-level code and by listeners) in one run
MaxStores == 2   \* stores created in one run, Provider layer
MaxNest == 2   \* depth of Provider nesting
MaxCalls == 4   \* hook calls and dispatches in one run, Provider layer

\* ------------------------------------------------------------ JS values
\* A value with its typeof tag.
Undefined == [tag |-> "undefined", val |-> "", num |-> 0]
Str(s) == [tag |-> "string", val |-> s, num |-> 0]
Num(n) == [tag |-> "number", val |-> "", num |-> n]
TypeOf(v) == v.tag

ListenerIds == {"f", "g"}
StoreNames == {"default", "x"}

\* An action: { type, name?, payload? }
Action(t, n, p) == [type |-> t, name |-> n, payload |-> p]
\* Mutant: createStore dispatches an action of another type.
InitActionOther == [type |-> "INCREMENT", name |-> Undefined, payload |-> Undefined]

InitAction == Action("@@INIT", Undefined, Undefined)
RenameActions == {Action("@@RENAME_STORE", n, Undefined) :
                    n \in {Str(s) : s \in StoreNames} \cup {Num(1), Undefined}}
PlainActions ==
    {Action(t, Undefined, Undefined) : t \in {"INCREMENT", "BOOM"}}
    \cup {Action("SET_NAME", Undefined, Str("b"))}
Actions == PlainActions \cup RenameActions

InitialStates == {[count |-> 0, name |-> "a"], [count |-> 3, name |-> "b"]}
ReducerKinds == {"counter", "custom"}

\* ------------------------------------------------------------- reducers
\* README's counterReducer: unknown types return the state argument.
counterReducer(state, action) ==
    CASE action.type = "INCREMENT" -> [state EXCEPT !.count = state.count + 1]
      [] action.type = "DECREMENT" -> [state EXCEPT !.count = state.count - 1]
      [] action.type = "SET_COUNT" -> [state EXCEPT !.count = action.payload.num]
      [] action.type = "SET_NAME"  -> [state EXCEPT !.name = action.payload.val]
      [] OTHER -> state

\* A caller-supplied reducer that special-cases the reserved types and
\* throws on 'BOOM'.
customReducer(state, action) ==
    CASE action.type = "@@INIT" -> [state EXCEPT !.name = "ready"]
      [] action.type = "@@RENAME_STORE" -> [state EXCEPT !.name = "renamed"]
      [] OTHER -> counterReducer(state, action)

ReducerThrows(kind, state, action) == kind = "custom" /\ action.type = "BOOM"

Reducer(kind, state, action) ==
    IF kind = "custom" THEN customReducer(state, action)
    ELSE counterReducer(state, action)

\* ---------------------------------------------------------------- state
VARIABLES
    pc,            \* "new" before createStore, "init" inside it, "ready" after
    currentState,  \* let currentState
    storeName,     \* let storeName
    reducer,       \* the reducer passed to createStore
    listeners,     \* let listeners: (() => void)[]
    serials,       \* ghost: the subscribe call each entry of listeners came from
    subs,          \* the unsubscribe closures handed out, by subscribe call
    stack,         \* running listeners.forEach passes, innermost last
    ops,           \* store calls made so far
    folded,        \* ghost: the reducer folded over the actions handed to it so far
    named,         \* ghost: the name last assigned
    stateRef,      \* the identity of the object currentState refers to
    comp,          \* a component that reads the store through a hook
    cstores,       \* Provider layer: the stores created so far
    chooks,        \* Provider layer: the store each hook returned by create closes over
    scope,         \* Provider layer: stores of the enclosing Providers, outermost first
    call,          \* Provider layer: the last step and, for a hook call, its outcome
    event          \* ghost: what the last step did

storeVars == <<pc, currentState, storeName, reducer, listeners, serials, subs, stack, ops,
               folded, named, event>>
hookVars == <<stateRef, comp>>
ctxVars == <<cstores, chooks, scope, call>>
vars == <<storeVars, hookVars, ctxVars>>

\* ------------------------------------------------------- array helpers
\* Array.prototype.indexOf: first index holding x, 0 for -1.
indexOf(list, x) ==
    IF \E k \in 1..Len(list) : list[k] = x
    THEN CHOOSE k \in 1..Len(list) : list[k] = x /\ \A j \in 1..(k - 1) : list[j] # x
    ELSE 0

\* Mutant: the entry is not removed.
spliceNothing(list, index) == list

\* Array.prototype.splice(index, 1)
splice(list, index) ==
    [k \in 1..(Len(list) - 1) |-> IF k < index THEN list[k] ELSE list[k + 1]]

\* Mutant: a listener already in the list is not added again.
pushUnique(list, x) ==
    IF \E k \in 1..Len(list) : list[k] = x THEN list ELSE Append(list, x)

\* Array.prototype.push
push(list, x) == Append(list, x)

Top == stack[Len(stack)]

\* Mutant: the pass leaves out the last listener.
NewPassShort(src) ==
    [i |-> 1, len |-> Len(listeners) - 1, running |-> FALSE, src |-> src,
     snapshot |-> listeners, invoked |-> <<>>, disturbed |-> FALSE]

\* Mutant: the notification is put off; the call returns with nobody called.
NewPassNone(src) ==
    [i |-> 1, len |-> 0, running |-> FALSE, src |-> src,
     snapshot |-> listeners, invoked |-> <<>>, disturbed |-> FALSE]

\* The frame of one listeners.forEach call: forEach reads the length once.
\* snapshot, invoked and disturbed are ghosts: the list when the pass began,
\* the listeners it has called, and whether subscribe or an unsubscribe
\* function was called while it ran.
NewPass(src) ==
    [i |-> 1, len |-> Len(listeners), running |-> FALSE, src |-> src,
     snapshot |-> listeners, invoked |-> <<>>, disturbed |-> FALSE]

\* The caller of a store function: top-level code, or the running listener.
CanCall ==
    /\ pc = "ready"
    /\ ops < MaxOps
    /\ \/ Len(stack) = 0
       \/ Len(stack) > 0 /\ Top.running

Disturb(st) == [k \in 1..Len(st) |-> [st[k] EXCEPT !.disturbed = TRUE]]

\* ------------------------------------------------------------ operations
\* Mutant: the typeof check on action.name is forgotten.
IsRenameTypeOnly(action) == action.type = "@@RENAME_STORE"

\* Mutant: the rename special case is missing.
IsRenameNever(action) == FALSE

\* dispatch's guard for the reserved rename action.
IsRename(action) ==
    action.type = "@@RENAME_STORE" /\ TypeOf(action.name) = "string"

\* Mutant: the reducer's result is dropped instead of assigned.
CommitStale(state, action) == state

\* The reducer call and assignment of dispatch: the state it commits.
Commit(state, action) == Reducer(reducer, state, action)

\* Mutant: dispatch catches the reducer's fault and carries on.
FaultsSwallowed(state, action) == FALSE

\* Whether reducer(currentState, action) leaves dispatch by a fault.
Faults(state, action) == ReducerThrows(reducer, state, action)

\* createStore(initialState, reducer, initialName = "default"): sets the
\* three variables and calls dispatch({ type: '@@INIT' }), whose forEach
\* starts over the empty listener list.
createStore(initialState, kind, initialName) ==
    /\ pc = "new"
    /\ reducer' = kind
    /\ listeners' = <<>>
    /\ serials' = <<>>
    /\ subs' = <<>>
    /\ ops' = 0
    /\ storeName' = IF initialName = Undefined THEN "default" ELSE initialName.val
    /\ named' = IF initialName = Undefined THEN "default" ELSE initialName.val
    /\ currentState' = Reducer(kind, initialState, InitAction)
    /\ folded' = Reducer(kind, initialState, InitAction)
    /\ pc' = "init"
    /\ stack' = <<[i |-> 1, len |-> 0, running |-> FALSE, src |-> "dispatch",
                   snapshot |-> <<>>, invoked |-> <<>>, disturbed |-> FALSE]>>
    /\ event' = [kind |-> "createStore", initialState |-> initialState,
                 initialName |-> initialName,
                 calls |-> <<[state |-> initialState, action |-> InitAction]>>,
                 threw |-> FALSE]

\* setStoreName(newName): assign, then listeners.forEach.
setStoreName(newName) ==
    /\ CanCall
    /\ ops' = ops + 1
    /\ storeName' = newName
    /\ named' = newName
    /\ stack' = Append(stack, NewPass("setStoreName"))
    /\ event' = [kind |-> "setStoreName", name |-> newName, pre |-> currentState,
                 preName |-> storeName, calls |-> <<>>, threw |-> FALSE,
                 depth |-> Len(stack)]
    /\ UNCHANGED <<pc, currentState, reducer, listeners, serials, subs, folded>>

\* dispatch(action)
dispatch(action) ==
    /\ CanCall
    /\ ops' = ops + 1
    /\ IF IsRename(action)
       THEN \* setStoreName(action.name); return
            /\ storeName' = action.name.val
            /\ named' = action.name.val
            /\ stack' = Append(stack, NewPass("setStoreName"))
            /\ event' = [kind |-> "dispatch", action |-> action, pre |-> currentState,
                         preName |-> storeName, calls |-> <<>>, threw |-> FALSE,
                         depth |-> Len(stack)]
            /\ UNCHANGED <<currentState, folded>>
       ELSE IF Faults(currentState, action)
       THEN \* the fault leaves dispatch before the assignment, and every
            \* caller up to the top level
            /\ stack' = <<>>
            /\ event' = [kind |-> "dispatch", action |-> action, pre |-> currentState,
                         preName |-> storeName,
                         calls |-> <<[state |-> currentState, action |-> action]>>,
                         threw |-> TRUE, depth |-> Len(stack)]
            /\ UNCHANGED <<currentState, storeName, folded, named>>
       ELSE /\ currentState' = Commit(currentState, action)
            /\ folded' = Reducer(reducer, folded, action)
            /\ stack' = Append(stack, NewPass("dispatch"))
            /\ event' = [kind |-> "dispatch", action |-> action, pre |-> currentState,
                         preName |-> storeName,
                         calls |-> <<[state |-> currentState, action |-> action]>>,
                         threw |-> FALSE, depth |-> Len(stack)]
            /\ UNCHANGED <<storeName, named>>
    /\ UNCHANGED <<pc, reducer, listeners, serials, subs>>

\* subscribe(listener): push, return the unsubscribe closure.
subscribe(l) ==
    /\ CanCall
    /\ ops' = ops + 1
    /\ listeners' = push(listeners, l)
    /\ serials' = Append(serials, Len(subs) + 1)
    /\ subs' = Append(subs, [l |-> l, calls |-> 0, trues |-> 0])
    /\ stack' = Disturb(stack)
    /\ event' = [kind |-> "subscribe", l |-> l, token |-> Len(subs) + 1,
                 preListeners |-> listeners, threw |-> FALSE]
    /\ UNCHANGED <<pc, currentState, storeName, reducer, folded, named>>

\* The closure returned by the t-th subscribe call.
unsubscribe(t) ==
    /\ CanCall
    /\ ops' = ops + 1
    /\ t \in 1..Len(subs)
    /\ LET index == indexOf(listeners, subs[t].l)
           result == index # 0
       IN /\ listeners' = IF result THEN splice(listeners, index) ELSE listeners
          /\ serials' = IF result THEN splice(serials, index) ELSE serials
          /\ subs' = [subs EXCEPT ![t].calls = @ + 1,
                                  ![t].trues = @ + (IF result THEN 1 ELSE 0)]
          /\ stack' = Disturb(stack)
          /\ event' = [kind |-> "unsubscribe", token |-> t, l |-> subs[t].l,
                       result |-> result, priorCalls |-> subs[t].calls,
                       preListeners |-> listeners, threw |-> FALSE]
    /\ UNCHANGED <<pc, currentState, storeName, reducer, folded, named>>

\* ------------------------------------------- listeners.forEach, stepwise
\* Mutant: the loop stops one listener early.
HasNextOffByOne(f) == f.i < f.len /\ f.i <= Len(listeners)

\* forEach visits index i while i is below the length it read at the start
\* and the index is still present in the array.
HasNext(f) == f.i <= f.len /\ f.i <= Len(listeners)

\* forEach calls listeners[i].
Invoke ==
    /\ Len(stack) > 0 /\ ~Top.running /\ HasNext(Top)
    /\ LET l == listeners[Top.i]
       IN /\ stack' = [stack EXCEPT ![Len(stack)].running = TRUE,
                                    ![Len(stack)].invoked = Append(@, l)]
          /\ event' = [kind |-> "invoke", l |-> l, threw |-> FALSE]
    /\ UNCHANGED <<pc, currentState, storeName, reducer, listeners, serials, subs, ops,
                   folded, named>>

\* Mutant: after a listener that called the store, the loop skips one.
ListenerReturnSkip ==
    /\ Len(stack) > 0 /\ Top.running
    /\ stack' = [stack EXCEPT ![Len(stack)].running = FALSE,
                              ![Len(stack)].i = @ + (IF event.kind = "passEnd" THEN 2 ELSE 1)]
    /\ event' = [kind |-> "listenerReturn", threw |-> FALSE]
    /\ UNCHANGED <<pc, currentState, storeName, reducer, listeners, serials, subs, ops,
                   folded, named>>

\* The running listener returns; forEach moves to the next index.
ListenerReturn ==
    /\ Len(stack) > 0 /\ Top.running
    /\ stack' = [stack EXCEPT ![Len(stack)].running = FALSE,
                              ![Len(stack)].i = @ + 1]
    /\ event' = [kind |-> "listenerReturn", threw |-> FALSE]
    /\ UNCHANGED <<pc, currentState, storeName, reducer, listeners, serials, subs, ops,
                   folded, named>>

\* Mutant: forEach swallows the listener's fault and goes on.
ListenerThrowSwallowed ==
    /\ Len(stack) > 0 /\ Top.running
    /\ stack' = [stack EXCEPT ![Len(stack)].running = FALSE,
                              ![Len(stack)].i = @ + 1]
    /\ event' = [kind |-> "listenerThrow", src |-> stack[1].src,
                 snapshot |-> stack[1].snapshot, invoked |-> stack[1].invoked,
                 disturbed |-> stack[1].disturbed, pre |-> currentState,
                 preName |-> storeName, threw |-> TRUE]
    /\ UNCHANGED <<pc, currentState, storeName, reducer, listeners, serials, subs, ops,
                   folded, named>>

\* The running listener throws: nothing catches, so forEach, the store
\* function and every enclosing listener are left.
ListenerThrow ==
    /\ Len(stack) > 0 /\ Top.running
    /\ stack' = <<>>
    /\ event' = [kind |-> "listenerThrow", src |-> stack[1].src,
                 snapshot |-> stack[1].snapshot, invoked |-> stack[1].invoked,
                 disturbed |-> stack[1].disturbed, pre |-> currentState,
                 preName |-> storeName, threw |-> TRUE]
    /\ UNCHANGED <<pc, currentState, storeName, reducer, listeners, serials, subs, ops,
                   folded, named>>

\* forEach is done; the store function returns to its caller.
PassEnd ==
    /\ Len(stack) > 0 /\ ~Top.running /\ ~HasNext(Top)
    /\ stack' = SubSeq(stack, 1, Len(stack) - 1)
    /\ pc' = "ready"
    /\ event' = [kind |-> "passEnd", src |-> Top.src, snapshot |-> Top.snapshot,
                 invoked |-> Top.invoked, disturbed |-> Top.disturbed,
                 depth |-> Len(stack), threw |-> FALSE]
    /\ UNCHANGED <<currentState, storeName, reducer, listeners, serials, subs, ops, folded,
                   named>>

\* ------------------------------------------------------------ read hooks
HookKinds == {"useStore", "count", "shallow"}

\* A snapshot: an object (its identity and its fields) or a number.
NoFields == [count |-> 0, name |-> ""]
Obj(ref, fields) == [ref |-> ref, num |-> 0, val |-> fields]
Prim(n) == [ref |-> 0, num |-> n, val |-> NoFields]

\* Object.is, by which useSyncExternalStore compares two snapshots.
ObjectIs(a, b) == a.ref = b.ref /\ a.num = b.num

\* Whether the reducer returns a new object ({ ...state, field }) or its
\* state argument.
NewObject(kind, state, action) ==
    \/ action.type \in {"INCREMENT", "DECREMENT", "SET_COUNT", "SET_NAME"}
    \/ kind = "custom" /\ action.type \in {"@@INIT", "@@RENAME_STORE"}

\* The identity of the state after dispatch(action).
RefAfter(action) ==
    IF ~IsRename(action) /\ ~Faults(currentState, action)
       /\ NewObject(reducer, currentState, action)
    THEN stateRef + 1 ELSE stateRef

\* The selector the component passes: none for useStore(), s => s.count,
\* or s => s together with a key-wise equalityFn.
selector(kind, ref, state) ==
    IF kind = "count" THEN Prim(state.count) ELSE Obj(ref, state)

\* The equalityFn the component passes; the default is (a, b) => a === b.
equalityFn(kind, a, b) ==
    IF kind = "shallow"
    THEN a.val.count = b.val.count /\ a.val.name = b.val.name
    ELSE ObjectIs(a, b)

\* Mutant: the snapshot is a copy of the state, a new object at every call.
getSnapshotFresh(kind) == selector(kind, stateRef + 1, currentState)

\* Mutant: the selector is not applied.
getSnapshotWhole(kind) == Obj(stateRef, currentState)

\* The getSnapshot the hooks hand to useSyncExternalStore:
\* () => selector(store.getState()), or () => store.getState().
getSnapshot(kind) == selector(kind, stateRef, currentState)

NoComp ==
    [mounted |-> FALSE, hook |-> "none", token |-> 0, renders |-> 0,
     snap |-> Prim(0), prev |-> Prim(0), next |-> Prim(0), rerendered |-> FALSE,
     cause |-> [kind |-> "none", threw |-> FALSE]]

\* createStore, with the identity of the state it ends with.
hookCreateStore(initialState, kind, initialName) ==
    /\ createStore(initialState, kind, initialName)
    /\ stateRef' = IF NewObject(kind, initialState, InitAction) THEN 2 ELSE 1
    /\ UNCHANGED <<comp, ctxVars>>

\* First render of a component calling useStore() or useSelector(...):
\* useSyncExternalStore(store.subscribe, getSnapshot) takes the snapshot
\* and subscribes its change handler.
Mount(kind) ==
    /\ Len(stack) = 0 /\ ~comp.mounted
    /\ subscribe("c")
    /\ comp' = [NoComp EXCEPT !.mounted = TRUE, !.hook = kind,
                              !.token = Len(subs) + 1, !.renders = comp.renders + 1,
                              !.snap = getSnapshot(kind)]
    /\ UNCHANGED <<stateRef, ctxVars>>

\* The component unmounts: useSyncExternalStore calls the function
\* subscribe returned.
Unmount ==
    /\ Len(stack) = 0 /\ comp.mounted
    /\ unsubscribe(comp.token)
    /\ comp' = [comp EXCEPT !.mounted = FALSE]
    /\ UNCHANGED <<stateRef, ctxVars>>

\* store.dispatch(action) from an event handler of the application.
hookDispatch(action) ==
    /\ Len(stack) = 0
    /\ dispatch(action)
    /\ stateRef' = RefAfter(action)
    /\ UNCHANGED <<comp, ctxVars>>

\* store.setStoreName(newName) from the application.
hookSetStoreName(newName) ==
    /\ Len(stack) = 0
    /\ setStoreName(newName)
    /\ UNCHANGED <<hookVars, ctxVars>>

\* forEach calls the component's change handler: useSyncExternalStore takes
\* a new snapshot and re-renders the component when it is not Object.is
\* the one rendered; the equalityFn argument of the hook plays no part.
HandleStoreChange ==
    /\ Invoke
    /\ LET next == getSnapshot(comp.hook)
           changed == ~ObjectIs(comp.snap, next)
       IN comp' = [comp EXCEPT !.prev = comp.snap, !.next = next,
                               !.rerendered = changed,
                               !.snap = IF changed THEN next ELSE comp.snap,
                               !.renders = IF changed THEN @ + 1 ELSE @,
                               !.cause = event]
    /\ UNCHANGED <<stateRef, ctxVars>>

\* ------------------------------------------- Provider, context, create
\* The value of StoreContext where no Provider encloses: createContext(null).
Null == 0

ContextHooks == {"useStoreContext", "useSelector", "useStore", "useDispatch"}

\* The actions dispatched in this layer: one the reducer handles, one rename.
CtxActions == {Action("INCREMENT", Undefined, Undefined),
               Action("@@RENAME_STORE", Str("x"), Undefined)}

\* The outcome of a hook call: whether it threw, the store it resolved to, the
\* store it subscribed to (Null: none), the stores whose getState it called,
\* and what it returned.  Objects carry the store they are the state of.
NoCall ==
    [kind |-> "none", hook |-> "none", threw |-> FALSE, store |-> Null,
     subscribed |-> Null, read |-> {}, value |-> Prim(0), scope |-> <<>>, h |-> 0,
     pre |-> <<>>]

\* Mutant: the lookup walks to the outermost Provider.
useContextOutermost == IF scope = <<>> THEN Null ELSE scope[1]

\* useContext(StoreContext): the value of the nearest enclosing
\* <StoreContext.Provider value={store}>, or the default where there is none.
useContext == IF scope = <<>> THEN Null ELSE scope[Len(scope)]

\* Mutant: the check fails whatever the context holds.
useStoreContextAlwaysThrows == [threw |-> TRUE, store |-> useContext]

\* useStoreContext: throws when useContext gave no store.
useStoreContext == [threw |-> useContext = Null, store |-> useContext]

\* createStore(initialState, reducer): a new store, its state folded over the
\* '@@INIT' dispatch; the store object is handed to the caller.
ctxCreateStore(initialState, kind) ==
    /\ Len(cstores) < MaxStores
    /\ cstores' = Append(cstores, [state |-> Reducer(kind, initialState, InitAction),
                                   reducer |-> kind, by |-> "createStore", listeners |-> 0])
    /\ call' = [NoCall EXCEPT !.kind = "createStore"]
    /\ UNCHANGED <<chooks, scope>>

\* create(initialState, reducer): a new store kept in the closure of the hook
\* that is returned; the store object itself is not handed out.
create(initialState, kind) ==
    /\ Len(cstores) < MaxStores
    /\ cstores' = Append(cstores, [state |-> Reducer(kind, initialState, InitAction),
                                   reducer |-> kind, by |-> "create", listeners |-> 0])
    /\ chooks' = Append(chooks, Len(cstores) + 1)
    /\ call' = [NoCall EXCEPT !.kind = "create"]
    /\ UNCHANGED scope

\* dispatch on store i: state only, listeners are the first layer's subject.
dispatchOn(i, action) ==
    LET st == cstores[i] IN
    IF IsRename(action) \/ ReducerThrows(st.reducer, st.state, action)
    THEN cstores
    ELSE [cstores EXCEPT ![i].state = Reducer(st.reducer, st.state, action)]

\* store.dispatch(action) on a store the application holds.
ctxDispatch(i, action) ==
    /\ ops < MaxCalls
    /\ i \in 1..Len(cstores) /\ cstores[i].by = "createStore"
    /\ cstores' = dispatchOn(i, action)
    /\ call' = [NoCall EXCEPT !.kind = "dispatch", !.store = i]
    /\ UNCHANGED <<chooks, scope>>

\* Rendering descends into <Provider store={cstores[i]}>.
EnterProvider(i) ==
    /\ Len(scope) < MaxNest
    /\ i \in 1..Len(cstores) /\ cstores[i].by = "createStore"
    /\ scope' = Append(scope, i)
    /\ call' = [NoCall EXCEPT !.kind = "enter"]
    /\ UNCHANGED <<cstores, chooks>>

\* Rendering leaves the innermost Provider.
LeaveProvider ==
    /\ Len(scope) > 0
    /\ scope' = SubSeq(scope, 1, Len(scope) - 1)
    /\ call' = [NoCall EXCEPT !.kind = "leave"]
    /\ UNCHANGED <<cstores, chooks>>

\* What a component gets from a read of store i: the state, or the selected
\* count.
readStore(i, kind) == selector(kind, i, cstores[i].state)

\* A component at the current place of the tree calls useStoreContext(),
\* useSelector(s => s.count), useStore() or useDispatch().
CallHook(hook) ==
    /\ ops < MaxCalls
    /\ LET found == useStoreContext
           reads == hook \in {"useSelector", "useStore"}
           kind == IF hook = "useSelector" THEN "count" ELSE "useStore"
       IN IF found.threw
          THEN /\ call' = [NoCall EXCEPT !.kind = "hook", !.hook = hook, !.threw = TRUE,
                                         !.scope = scope, !.pre = cstores]
               /\ UNCHANGED cstores
          ELSE /\ call' = [NoCall EXCEPT !.kind = "hook", !.hook = hook,
                                         !.store = found.store, !.scope = scope,
                                         !.subscribed = IF reads THEN found.store ELSE Null,
                                         !.read = IF reads THEN {found.store} ELSE {},
                                         !.value = IF reads THEN readStore(found.store, kind)
                                                   ELSE Prim(0),
                                         !.pre = cstores]
               /\ cstores' = IF reads
                             THEN [cstores EXCEPT ![found.store].listeners = @ + 1]
                             ELSE cstores
    /\ UNCHANGED <<chooks, scope>>

\* The dispatch function useDispatch() returned is called.
CallDispatch(action) ==
    /\ ops < MaxCalls
    /\ call.kind = "hook" /\ call.hook = "useDispatch" /\ ~call.threw
    /\ cstores' = dispatchOn(call.store, action)
    /\ call' = [NoCall EXCEPT !.kind = "dispatched", !.store = call.store,
                              !.scope = call.scope]
    /\ UNCHANGED <<chooks, scope>>

\* Mutant: every hook returned by create reads the store created last.
boundStoreLatest(h) == chooks[Len(chooks)]

\* The store in the closure of the h-th hook returned by create.
boundStore(h) == chooks[h]

\* A component calls the h-th hook returned by create, with no argument or
\* with the selector s => s.count.
CallCreateHook(h, withSelector) ==
    /\ ops < MaxCalls
    /\ h \in 1..Len(chooks)
    /\ LET i == boundStore(h)
           kind == IF withSelector THEN "count" ELSE "useStore"
       IN /\ call' = [NoCall EXCEPT !.kind = "createHook", !.hook = kind, !.h = h,
                                    !.store = i, !.subscribed = i, !.read = {i},
                                    !.value = readStore(i, kind), !.scope = scope,
                                    !.pre = cstores]
          /\ cstores' = [cstores EXCEPT ![i].listeners = @ + 1]
    /\ UNCHANGED <<chooks, scope>>

\* ------------------------------------------------------- specification
Init ==
    /\ pc = "new"
    /\ currentState \in InitialStates
    /\ storeName = "default"
    /\ reducer \in ReducerKinds
    /\ listeners = <<>>
    /\ serials = <<>>
    /\ subs = <<>>
    /\ stack = <<>>
    /\ ops = 0
    /\ folded = currentState
    /\ named = "default"
    /\ stateRef = 1
    /\ comp = NoComp
    /\ cstores = <<>>
    /\ chooks = <<>>
    /\ scope = <<>>
    /\ call = NoCall
    /\ event = [kind |-> "none", threw |-> FALSE]

\* The store used directly, with arbitrary listeners.
Next ==
    \/ (\E n \in {Undefined} \cup {Str(s) : s \in StoreNames} :
          createStore(currentState, reducer, n)) /\ UNCHANGED <<hookVars, ctxVars>>
    \/ (\E n \in StoreNames : setStoreName(n)) /\ UNCHANGED <<hookVars, ctxVars>>
    \/ (\E a \in Actions : dispatch(a)) /\ UNCHANGED <<hookVars, ctxVars>>
    \/ (\E l \in ListenerIds : subscribe(l)) /\ UNCHANGED <<hookVars, ctxVars>>
    \/ (\E t \in 1..MaxOps : unsubscribe(t)) /\ UNCHANGED <<hookVars, ctxVars>>
    \/ Invoke /\ UNCHANGED <<hookVars, ctxVars>>
    \/ ListenerReturn /\ UNCHANGED <<hookVars, ctxVars>>
    \/ ListenerThrow /\ UNCHANGED <<hookVars, ctxVars>>
    \/ PassEnd /\ UNCHANGED <<hookVars, ctxVars>>

Spec == Init /\ [][Next]_vars

\* The store read by one component through a hook.
NextHook ==
    \/ \E n \in {Undefined} \cup {Str(s) : s \in StoreNames} :
          hookCreateStore(currentState, reducer, n)
    \/ \E k \in HookKinds : Mount(k)
    \/ Unmount
    \/ \E a \in Actions : hookDispatch(a)
    \/ \E n \in StoreNames : hookSetStoreName(n)
    \/ HandleStoreChange
    \/ ListenerReturn /\ UNCHANGED <<hookVars, ctxVars>>
    \/ PassEnd /\ UNCHANGED <<hookVars, ctxVars>>

SpecHook == Init /\ [][NextHook]_vars

\* Stores handed to Providers and stores closed over by create.
ctxCounted ==
    /\ ops' = IF call'.kind \in {"dispatch", "hook", "dispatched", "createHook"}
              THEN ops + 1 ELSE ops
    /\ UNCHANGED <<pc, currentState, storeName, reducer, listeners, serials, subs, stack,
                   folded, named, event, hookVars>>

NextCtx ==
    \/ (\E s \in InitialStates : ctxCreateStore(s, "counter")) /\ ctxCounted
    \/ (\E s \in InitialStates : create(s, "counter")) /\ ctxCounted
    \/ (\E i \in 1..MaxStores, a \in CtxActions : ctxDispatch(i, a)) /\ ctxCounted
    \/ (\E i \in 1..MaxStores : EnterProvider(i)) /\ ctxCounted
    \/ LeaveProvider /\ ctxCounted
    \/ (\E h \in ContextHooks : CallHook(h)) /\ ctxCounted
    \/ (\E a \in CtxActions : CallDispatch(a)) /\ ctxCounted
    \/ (\E h \in 1..MaxStores, w \in BOOLEAN : CallCreateHook(h, w)) /\ ctxCounted

InitCtx == Init /\ currentState = [count |-> 0, name |-> "a"] /\ reducer = "counter"

SpecCtx == InitCtx /\ [][NextCtx]_vars

\* ------------------------------------------------------------ properties
\* A rename action as the specification words it: the reserved type with a
\* string name field.
WellFormedRename(a) == a.type = "@@RENAME_STORE" /\ a.name.tag = "string"

\* A notification pass for the call just made has been set up over the
\* whole listener list and has called nobody yet.
PassStarted(src) ==
    /\ Len(stack) > 0
    /\ Top.src = src
    /\ Top.snapshot = listeners
    /\ Top.invoked = <<>>
    /\ ~Top.running

\* The number of subscriptions of l no unsubscribe call has removed.
RECURSIVE SumTrues(_, _)
SumTrues(l, n) ==
    IF n = 0 THEN 0
    ELSE SumTrues(l, n - 1) + (IF subs[n].l = l THEN subs[n].trues ELSE 0)

Active(l) ==
    Cardinality({t \in 1..Len(subs) : subs[t].l = l}) - SumTrues(l, Len(subs))

\* C1: right after a dispatch that did not fault, the state is the reducer
\* applied to the state before it and the action; for a well-formed rename
\* the state is the one before and the store name is the action's name.
C1_DispatchAppliesReducer ==
    (event.kind = "dispatch" /\ ~event.threw) =>
        IF WellFormedRename(event.action)
        THEN currentState = event.pre /\ storeName = event.action.name.val
        ELSE currentState = Reducer(reducer, event.pre, event.action)

\* C1 witness: the third INCREMENT in a row has taken count 0 to 3.
C1_Witness ==
    /\ event.kind = "dispatch"
    /\ event.action.type = "INCREMENT"
    /\ event.pre.count = 2
    /\ currentState.count = 3
    /\ ops = 3

\* C2: a dispatch pass during which nobody subscribes or unsubscribes, and
\* which runs to its end, has called every listener of the list once, in
\* list order, and the list holds the listeners in the order of the
\* subscribe calls.
C2_NotifiesAllInOrder ==
    /\ (event.kind = "passEnd" /\ event.src = "dispatch" /\ ~event.disturbed) =>
           (event.invoked = event.snapshot /\ event.snapshot = listeners)
    /\ \A j \in 1..Len(listeners) :
           /\ listeners[j] = subs[serials[j]].l
           /\ \A k \in 1..(j - 1) : serials[k] < serials[j]

\* C2 witness: a dispatch pass over f then g has called f, then g.
C2_Witness ==
    /\ event.kind = "passEnd"
    /\ event.src = "dispatch"
    /\ ~event.disturbed
    /\ event.invoked = <<"f", "g">>
    /\ subs = <<[l |-> "f", calls |-> 0, trues |-> 0], [l |-> "g", calls |-> 0, trues |-> 0]>>

\* C3 (as claimed, read on lists of distinct listeners): every dispatch
\* pass that ends has called exactly the listeners of the list as it was
\* when dispatch was called, each once, also when listeners subscribed or
\* unsubscribed while it ran.
C3_PassOverSnapshot ==
    (/\ event.kind = "passEnd"
     /\ event.src = "dispatch"
     /\ \A j, k \in 1..Len(event.snapshot) :
           event.snapshot[j] = event.snapshot[k] => j = k) =>
        event.invoked = event.snapshot

\* C4 (as claimed): a listener is not called by a pass that began after an
\* unsubscribe function of its latest subscription was invoked.
C4_UnsubscribedNeverNotified ==
    ~ /\ event.kind = "invoke"
      /\ ~Top.disturbed
      /\ \E t \in 1..Len(subs) :
            /\ subs[t].l = event.l
            /\ subs[t].calls > 0
            /\ \A u \in (t + 1)..Len(subs) : subs[u].l # event.l

\* C4 (amended): a listener is called only while one of its subscriptions
\* is outstanding, i.e. while fewer unsubscribe calls for it have returned
\* true than subscribe calls were made for it; with none outstanding it is
\* not in the list.
C4_NotifiedOnlyWhileSubscribed ==
    /\ event.kind = "invoke" => Active(event.l) > 0
    /\ \A l \in ListenerIds :
           Active(l) = Cardinality({j \in 1..Len(listeners) : listeners[j] = l})

\* C4 witness: f was subscribed once and unsubscribed, and a later pass
\* has ended over g alone.
C4_Witness ==
    /\ event.kind = "passEnd"
    /\ event.invoked = <<"g">>
    /\ ~event.disturbed
    /\ Active("f") = 0
    /\ \E t \in 1..Len(subs) : subs[t].l = "f" /\ subs[t].trues = 1

\* C5 (as claimed): the first call of an unsubscribe function returns
\* true, every later call returns false and leaves the list as it was.
C5_UnsubscribeIdempotent ==
    event.kind = "unsubscribe" =>
        /\ event.result = (event.priorCalls = 0)
        /\ event.priorCalls > 0 => listeners = event.preListeners

\* C6: when the reducer throws for the state and the action, dispatch
\* propagates the fault, state and name stay as they were, and no pass
\* is running, so no listener is called.
C6_ReducerFaultLeavesState ==
    (/\ event.kind = "dispatch"
     /\ ~WellFormedRename(event.action)
     /\ ReducerThrows(reducer, event.pre, event.action)) =>
        /\ event.threw
        /\ currentState = event.pre
        /\ storeName = event.preName
        /\ stack = <<>>

\* C6 witness: 'BOOM' was dispatched to the throwing reducer with a
\* listener subscribed and the count at 1.
C6_Witness ==
    /\ event.kind = "dispatch"
    /\ event.threw
    /\ event.action.type = "BOOM"
    /\ currentState.count = 1
    /\ Len(listeners) > 0

\* C7: a '@@RENAME_STORE' action whose name is missing or no string goes
\* to the reducer once, the state becomes the reducer's result, the name
\* stays, and one dispatch pass starts over the listener list.
C7_MalformedRenameIsNormal ==
    (/\ event.kind = "dispatch"
     /\ event.action.type = "@@RENAME_STORE"
     /\ event.action.name.tag # "string") =>
        /\ ~event.threw
        /\ event.calls = <<[state |-> event.pre, action |-> event.action]>>
        /\ currentState = Reducer(reducer, event.pre, event.action)
        /\ storeName = event.preName
        /\ PassStarted("dispatch")
        /\ Top.i = 1 /\ Top.len = Len(listeners)

\* C7 witness: a rename without a name reached a reducer that handles the
\* type, with a listener subscribed.
C7_Witness ==
    /\ event.kind = "dispatch"
    /\ event.action = Action("@@RENAME_STORE", Undefined, Undefined)
    /\ event.pre.name # "renamed"
    /\ currentState.name = "renamed"
    /\ Len(listeners) > 0

\* C8: createStore calls the reducer once, with the initial state and
\* '@@INIT'; a reducer that ignores unknown types leaves the initial
\* state; the init pass calls no listener; without a name argument the
\* store is called "default".
C8_CreateStoreInit ==
    /\ event.kind = "createStore" =>
           /\ Len(event.calls) = 1
           /\ event.calls[1].state = event.initialState
           /\ event.calls[1].action.type = "@@INIT"
           /\ reducer = "counter" => currentState = event.initialState
           /\ event.initialName = Undefined => storeName = "default"
           /\ listeners = <<>>
    /\ pc = "init" =>
           /\ event.kind = "createStore"
           /\ Len(stack) = 1 /\ Top.invoked = <<>> /\ ~Top.running
           /\ ~HasNext(Top)

\* C8 witness: createStore({count: 3, name: 'b'}, counterReducer).
C8_Witness ==
    /\ event.kind = "createStore"
    /\ reducer = "counter"
    /\ event.initialName = Undefined
    /\ currentState = [count |-> 3, name |-> "b"]

\* C9: setStoreName(n) and a well-formed rename dispatch set the name to n,
\* leave the state, call no reducer and start one pass over the listener
\* list (also when n is the current name); such a pass, when nobody
\* subscribes or unsubscribes while it runs, ends having called every
\* listener in list order.
C9_RenameNotifies ==
    /\ (event.kind = "setStoreName" \/
        (event.kind = "dispatch" /\ WellFormedRename(event.action))) =>
           /\ storeName = (IF event.kind = "setStoreName" THEN event.name
                           ELSE event.action.name.val)
           /\ currentState = event.pre
           /\ event.calls = <<>>
           /\ PassStarted("setStoreName")
    /\ (event.kind = "passEnd" /\ event.src = "setStoreName" /\ ~event.disturbed) =>
           event.invoked = event.snapshot

\* C9 witness: a pass of setStoreName with the name the store already had
\* has ended having called f and g.
C9_Witness ==
    /\ event.kind = "passEnd"
    /\ event.src = "setStoreName"
    /\ event.invoked = <<"f", "g">>
    /\ storeName = "default"
    /\ ops = 3

\* C10: no action handed to the reducer is a well-formed rename, and
\* setStoreName hands it nothing.
C10_ReducerNeverSeesRename ==
    /\ event.kind \in {"createStore", "dispatch"} =>
           \A k \in 1..Len(event.calls) : ~WellFormedRename(event.calls[k].action)
    /\ event.kind = "setStoreName" => event.calls = <<>>

\* C10 witness: a well-formed rename was dispatched to the reducer that
\* handles '@@RENAME_STORE', and the state's name was not touched.
C10_Witness ==
    /\ event.kind = "dispatch"
    /\ WellFormedRename(event.action)
    /\ reducer = "custom"
    /\ storeName = "x"
    /\ currentState.name = "ready"

\* list without its j-th entry, the others in their order.
RemoveAt(list, j) == SubSeq(list, 1, j - 1) \o SubSeq(list, j + 1, Len(list))

\* How many entries of list are x.
Count(list, x) == Cardinality({j \in 1..Len(list) : list[j] = x})

\* C17: dispatch is synchronous and unbatched: a dispatch that returns
\* normally has committed the state and started exactly one pass before any
\* listener is called; every listener that is called sees the state with
\* every action dispatched so far applied; a pass that ends (nobody having
\* subscribed or unsubscribed meanwhile) has called the whole list and
\* takes exactly its own frame off, so nothing is left for later.
C17_SynchronousUnbatched ==
    /\ (event.kind = "dispatch" /\ ~event.threw /\ ~WellFormedRename(event.action)) =>
           /\ currentState = folded
           /\ Len(stack) = event.depth + 1
           /\ PassStarted("dispatch")
    /\ event.kind = "invoke" => currentState = folded
    /\ event.kind = "passEnd" =>
           /\ Len(stack) = event.depth - 1
           /\ ~event.disturbed => event.invoked = event.snapshot

\* C17 witness: the pass of the second of two dispatches in a row has
\* ended, f having been called for it, with both increments in the state.
C17_Witness ==
    /\ event.kind = "passEnd"
    /\ event.src = "dispatch"
    /\ event.invoked = <<"f">>
    /\ Len(stack) = 0
    /\ currentState = [count |-> 2, name |-> "a"]
    /\ ops = 3

\* C18: subscribe appends an entry also for a callback already in the
\* list; an unsubscribe call that returns true removes exactly one entry of
\* its callback and keeps the others in order, one that returns false
\* removes nothing; when no unsubscribe function of the callback has been
\* called twice, the call returns true; an undisturbed pass calls a
\* callback once per entry.
C18_DuplicateEntries ==
    /\ event.kind = "subscribe" =>
           listeners = event.preListeners \o <<event.l>>
    /\ event.kind = "unsubscribe" =>
           /\ IF event.result
              THEN /\ Len(listeners) = Len(event.preListeners) - 1
                   /\ \E j \in 1..Len(event.preListeners) :
                         /\ event.preListeners[j] = event.l
                         /\ listeners = RemoveAt(event.preListeners, j)
              ELSE listeners = event.preListeners
           /\ (\A t \in 1..Len(subs) : subs[t].l = event.l => subs[t].calls <= 1) =>
                 event.result
    /\ (event.kind = "passEnd" /\ ~event.disturbed) =>
           \A l \in ListenerIds : Count(event.invoked, l) = Count(event.snapshot, l)

\* C18 witness: f was subscribed twice and the first unsubscribe function
\* has removed one of the two entries.
C18_Witness ==
    /\ event.kind = "unsubscribe"
    /\ event.result
    /\ event.preListeners = <<"f", "f">>
    /\ listeners = <<"f">>
    /\ subs = <<[l |-> "f", calls |-> 1, trues |-> 1], [l |-> "f", calls |-> 0, trues |-> 0]>>

\* C19: a dispatch made by a running listener commits and runs its own
\* pass on top of the pass that called the listener, which waits inside
\* that listener; the state is always the reducer folded over the actions
\* dispatched so far, in the order of the calls; a pass that ends
\* undisturbed has skipped nobody; and a pass in flight can always take
\* its next step, so with the calls bounded the outermost dispatch returns.
C19_ReentrantDispatch ==
    /\ currentState = folded
    /\ \A k \in 1..(Len(stack) - 1) : stack[k].running
    /\ (event.kind = "passEnd" /\ ~event.disturbed) =>
           (event.invoked = event.snapshot /\ event.snapshot = listeners)
    /\ Len(stack) > 0 => ENABLED (Invoke \/ ListenerReturn \/ PassEnd)

\* C19 witness: f, called for an INCREMENT, dispatched INCREMENT itself;
\* the inner pass has called f and ended while the outer pass waits.
C19_Witness ==
    /\ event.kind = "passEnd"
    /\ event.src = "dispatch"
    /\ event.invoked = <<"f">>
    /\ Len(stack) = 1
    /\ stack[1].running
    /\ stack[1].src = "dispatch"
    /\ currentState = [count |-> 2, name |-> "a"]
    /\ ops = 3

\* C20: when a listener throws, no pass is left running (the fault leaves
\* forEach and the store function, so no later listener is called), and
\* the state and the name are the committed ones; of the list the call
\* began with, the listeners called are a prefix.
C20_ListenerFault ==
    event.kind = "listenerThrow" =>
        /\ Len(stack) = 0
        /\ currentState = event.pre /\ currentState = folded
        /\ storeName = event.preName /\ storeName = named
        /\ ~event.disturbed =>
              /\ Len(event.invoked) <= Len(event.snapshot)
              /\ event.invoked = SubSeq(event.snapshot, 1, Len(event.invoked))

\* C20 witness: f threw when called for setStoreName("x") with g
\* subscribed after it; the name is "x" and g was not called.
C20_Witness ==
    /\ event.kind = "listenerThrow"
    /\ event.src = "setStoreName"
    /\ event.snapshot = <<"f", "g">>
    /\ event.invoked = <<"f">>
    /\ event.preName = "x"
    /\ storeName = "x"

\* ------------------------------------------------------------ read hooks
\* The component's change handler has just run for a notification.
Notified(kind) == event.kind = "invoke" /\ comp.mounted /\ comp.hook = kind

\* The notification came from a dispatch whose reducer ran.
ByReducer == comp.cause.kind = "dispatch" /\ ~WellFormedRename(comp.cause.action)

\* C11 (as stated): when a notification fires and equalityFn(previous
\* snapshot, new snapshot) is true, the component does not re-render and keeps
\* the previous selected value, also when the two snapshots are different
\* references.  The hooks never call equalityFn: a component passing s => s
\* with a key-wise comparison re-renders for a new state object with equal
\* fields.
C11_EqualityFnSuppresses ==
    (event.kind = "invoke" /\ comp.mounted /\ equalityFn(comp.hook, comp.prev, comp.next)) =>
        /\ ~comp.rerendered
        /\ comp.snap = comp.prev

\* C12 (as stated): a component reading the whole state through useStore()
\* re-renders after every state-changing dispatch and after every rename
\* (setStoreName or a well-formed '@@RENAME_STORE' dispatch).
C12_RerendersOnDispatchAndRename ==
    (Notified("useStore") /\ (~ByReducer \/ currentState # comp.cause.pre)) =>
        comp.rerendered

\* C12 (amended): a component reading the whole state through useStore()
\* re-renders after a notification exactly when the reducer ran and returned
\* a new object, which every state-changing dispatch does; after a rename
\* (setStoreName or a well-formed '@@RENAME_STORE' dispatch) it is notified
\* but does not re-render, the state being the same object.  What it has
\* rendered is always store.getState().
C12_RerendersOnNewStateObject ==
    Notified("useStore") =>
        /\ comp.rerendered <=>
               (ByReducer /\ NewObject(reducer, comp.cause.pre, comp.cause.action))
        /\ (ByReducer /\ currentState # comp.cause.pre) => comp.rerendered
        /\ ~ByReducer => (~comp.rerendered /\ comp.snap = comp.prev)
        /\ comp.snap = Obj(stateRef, currentState)

\* Mounted, re-rendered by a dispatch, then notified of a rename and not
\* re-rendered.
C12_Witness ==
    /\ Notified("useStore")
    /\ comp.cause.kind = "setStoreName"
    /\ storeName = "x"
    /\ ~comp.rerendered
    /\ comp.renders = 2
    /\ currentState = [count |-> 1, name |-> "a"]

\* C13: with useSelector(s => s.count) under reference equality, dispatches
\* that replace the state while changing only an unrelated field yield no new
\* selected result (no re-render), whereas a dispatch that changes count
\* yields a new selected result equal to the new count.
C13_SelectCount ==
    Notified("count") =>
        /\ comp.rerendered <=> currentState.count # comp.cause.pre.count
        /\ comp.snap = Prim(currentState.count)
        /\ currentState.count = comp.cause.pre.count =>
               /\ comp.snap = comp.prev
               /\ comp.next = comp.prev

\* Two dispatches have each replaced the state, changing only name; the
\* component has rendered once, at mount.
C13_Witness ==
    /\ Notified("count")
    /\ ByReducer
    /\ comp.cause.action.type = "SET_NAME"
    /\ comp.cause.pre = [count |-> 0, name |-> "renamed"]
    /\ currentState = [count |-> 0, name |-> "b"]
    /\ stateRef >= 4
    /\ comp.renders = 1
    /\ ops = 3

\* ------------------------------------------- Provider, context, create
\* The innermost Provider's store at the place of the tree where the last
\* hook call was made.
Nearest == call.scope[Len(call.scope)]

\* C14: for any nesting of Provider scopes, useStoreContext, and therefore
\* useSelector, useStore and useDispatch, called inside a scope resolves to
\* the store of the nearest enclosing Provider: the hook subscribes to and
\* reads that store, and the dispatch function useDispatch returned
\* dispatches on it.
C14_NearestProvider ==
    /\ (call.kind = "hook" /\ call.scope # <<>>) =>
           /\ call.store = Nearest
           /\ call.hook \in {"useSelector", "useStore"} =>
                  /\ call.subscribed = Nearest
                  /\ call.read = {Nearest}
                  /\ call.value = readStore(Nearest,
                                            IF call.hook = "useSelector" THEN "count"
                                            ELSE "useStore")
    /\ call.kind = "dispatched" => call.store = Nearest

\* Store 2's Provider inside store 1's: a component inside both has
\* subscribed to store 2, and now one outside the inner scope reads store 1.
C14_Witness ==
    /\ call.kind = "hook" /\ call.hook = "useStore"
    /\ call.scope = <<1>>
    /\ call.store = 1
    /\ call.value = Obj(1, [count |-> 0, name |-> "a"])
    /\ Len(cstores) = 2
    /\ cstores[2].state = [count |-> 3, name |-> "b"]
    /\ cstores[2].by = "createStore" /\ cstores[2].listeners = 1
    /\ cstores[1].by = "createStore" /\ cstores[1].listeners = 1

\* C15: useStoreContext and every hook built on it, called with no enclosing
\* Provider, fails at call time before subscribing to or reading any store;
\* called inside a Provider it does not fail.
C15_NoProviderThrows ==
    call.kind = "hook" =>
        /\ call.threw <=> call.scope = <<>>
        /\ call.threw =>
               /\ cstores = call.pre
               /\ call.subscribed = Null
               /\ call.read = {}
               /\ call.store = Null

\* useSelector fails outside every Provider, after a call inside one had
\* subscribed to store 1.
C15_Witness ==
    /\ call.kind = "hook" /\ call.hook = "useSelector"
    /\ call.threw
    /\ scope = <<>>
    /\ Len(cstores) = 2
    /\ cstores[1].by = "createStore" /\ cstores[1].listeners = 1
    /\ cstores[2].by = "createStore" /\ cstores[2].listeners = 0

\* C16: each create call creates exactly one store, and the hook it returns
\* always reads that store, regardless of enclosing Providers and of other
\* create calls: with no argument its snapshot is that store's getState(),
\* with a selector it is selector(getState()), after any dispatches on any
\* stores.
C16_CreateBoundToOwnStore ==
    /\ Len(chooks) = Cardinality({i \in 1..Len(cstores) : cstores[i].by = "create"})
    /\ \A h \in 1..Len(chooks) :
           /\ chooks[h] \in 1..Len(cstores)
           /\ cstores[chooks[h]].by = "create"
           /\ \A g \in 1..Len(chooks) : chooks[g] = chooks[h] => g = h
    /\ call.kind = "createHook" =>
           /\ call.store = chooks[call.h]
           /\ call.subscribed = chooks[call.h]
           /\ call.read = {chooks[call.h]}
           /\ call.value = readStore(chooks[call.h], call.hook)

\* Two create calls; the first one's hook, called with s => s.count, gives
\* the count of the first one's store.
C16_Witness ==
    /\ call.kind = "createHook" /\ call.hook = "count"
    /\ call.h = 1
    /\ chooks = <<1, 2>>
    /\ Len(cstores) = 2
    /\ cstores[1].state.count = 0
    /\ cstores[2].state.count = 3
    /\ call.value = Prim(0)

=============================================================================
